---- MODULE Spec2Model ----
(***************************************************************************)
(* Event streaming of amcrest.event.Event: the framing loop of             *)
(* event_stream over a streaming HTTP response, the line scanner           *)
(* _event_lines, the payload decoding of event_actions, the attach         *)
(* request, and the properties is_motion_detected / is_alarm_triggered.    *)
(*                                                                         *)
(* Text is modelled as a sequence of one-character strings.                *)
(***************************************************************************)
EXTENDS Integers, Sequences, FiniteSets, TLC

(***************************************************************************)
(* Bounds of the model.                                                    *)
(***************************************************************************)
\* the body of a response is made of at most MaxItems items of BodyItems
MaxItems == 3
\* a transport error strikes after at most MaxErrOffset characters of a line
MaxErrOffset == 1

(***************************************************************************)
(* Characters and the str methods the code uses.                           *)
(***************************************************************************)
CR == "\r"
LF == "\n"
CRLF == <<CR, LF>>

\* str.strip() with no argument removes these (ASCII) characters
Whitespace == {" ", "\t", "\n", "\r", "\f"}

Digits == <<"0", "1", "2", "3", "4", "5", "6", "7", "8", "9">>
IsDigit(c) == \E i \in 1..10 : Digits[i] = c
DigitValue(c) == (CHOOSE i \in 1..10 : Digits[i] = c) - 1

UpperCase == <<"A", "B", "C", "D", "E", "F", "G", "H", "I", "J", "K", "L", "M",
               "N", "O", "P", "Q", "R", "S", "T", "U", "V", "W", "X", "Y", "Z">>
LowerCase == <<"a", "b", "c", "d", "e", "f", "g", "h", "i", "j", "k", "l", "m",
               "n", "o", "p", "q", "r", "s", "t", "u", "v", "w", "x", "y", "z">>

\* str.lower() on one character
LowerChar(c) ==
    IF \E i \in 1..26 : UpperCase[i] = c
    THEN LowerCase[CHOOSE i \in 1..26 : UpperCase[i] = c]
    ELSE c

\* str.lower()
Lower(s) == [i \in 1..Len(s) |-> LowerChar(s[i])]

Min(S) == CHOOSE x \in S : \A y \in S : x <= y
Max(S) == CHOOSE x \in S : \A y \in S : y <= x

\* str.strip()
Strip(s) ==
    LET keep == {i \in 1..Len(s) : s[i] \notin Whitespace}
    IN  IF keep = {} THEN <<>> ELSE SubSeq(s, Min(keep), Max(keep))

\* str.startswith(p)
StartsWith(s, p) == Len(s) >= Len(p) /\ SubSeq(s, 1, Len(p)) = p

\* str.replace(c, "") for a one-character c
Remove(s, c) == SelectSeq(s, LAMBDA x : x # c)

\* s.split(":")[1] of an s that holds a colon: the text between the first
\* colon and the second one (or the end)
SplitColon1(s) ==
    LET colons == {i \in 1..Len(s) : s[i] = ":"}
        first == Min(colons)
        later == {i \in colons : i > first}
        stop == IF later = {} THEN Len(s) + 1 ELSE Min(later)
    IN  SubSeq(s, first + 1, stop - 1)

\* the value of a run of digits and single underscores
RECURSIVE DigitsValue(_, _)
DigitsValue(s, acc) ==
    IF s = <<>> THEN acc
    ELSE IF Head(s) = "_" THEN DigitsValue(Tail(s), acc)
    ELSE DigitsValue(Tail(s), 10 * acc + DigitValue(Head(s)))

\* int(s) accepts: whitespace, an optional sign, digits with single
\* underscores between them, whitespace
IntBody(s) == LET t == Strip(s)
              IN  IF t # <<>> /\ Head(t) \in {"+", "-"} THEN Tail(t) ELSE t

IsInt(s) ==
    LET d == IntBody(s)
    IN  /\ d # <<>>
        /\ \A i \in 1..Len(d) : IsDigit(d[i]) \/ d[i] = "_"
        /\ IsDigit(d[1]) /\ IsDigit(d[Len(d)])
        /\ \A i \in 1..(Len(d) - 1) : ~(d[i] = "_" /\ d[i + 1] = "_")

\* int(s) of an s that IsInt
IntValue(s) ==
    LET t == Strip(s)
        v == DigitsValue(IntBody(s), 0)
    IN  IF Head(t) = "-" THEN 0 - v ELSE v

(***************************************************************************)
(* Payload decoding of event_actions.                                      *)
(*                                                                         *)
(* A dict is a sequence of <<key, value>> pairs in insertion order with    *)
(* distinct keys.  A payload value is [isMap, str, map]: the string of a   *)
(* plain key, or the nested dict of the key "data".                        *)
(***************************************************************************)
Keys(d) == {d[i][1] : i \in 1..Len(d)}
HasKey(d, k) == k \in Keys(d)
Get(d, k) == d[CHOOSE i \in 1..Len(d) : d[i][1] = k][2]

\* d[k] = v
DictSet(d, k, v) ==
    IF HasKey(d, k)
    THEN [i \in 1..Len(d) |-> IF d[i][1] = k THEN <<k, v>> ELSE d[i]]
    ELSE Append(d, <<k, v>>)

StrValue(s) == [isMap |-> FALSE, str |-> s, map |-> <<>>]
MapValue(m) == [isMap |-> TRUE, str |-> <<>>, map |-> m]

\* FindKeyValue with a greedy key, (?P<key>.+)= : the key runs to the last
\* "=" that leaves room for a value
RECURSIVE FindKeyValueGreedy(_, _)
FindKeyValueGreedy(t, s) ==
    LET eqs == {i \in (s + 1)..(Len(t) - 1) : t[i] = "="}
    IN  IF eqs = {} THEN <<>>
        ELSE LET e == Max(eqs)
                 ends == {j \in (e + 1)..Len(t) : j = Len(t) \/ t[j + 1] = ";"}
                 v == Min(ends)
             IN  <<<<SubSeq(t, s, e - 1), SubSeq(t, e + 1, v)>>>>
                     \o FindKeyValueGreedy(t, v + 2)

\* _REG_PARSE_KEY_VALUE.findall(t) from index s on, as a sequence of
\* <<Key, Value>>.  (?P<key>.+?)= : the key is not empty and ends before the
\* first "=" that leaves room for a value; (?P<value>.+?)(?:;|$) : the value
\* is not empty and ends before the first ";" after its first character, or
\* at the end of the text.  t holds no "\n", so "." matches every character.
RECURSIVE FindKeyValue(_, _)
FindKeyValue(t, s) ==
    LET eqs == {i \in (s + 1)..(Len(t) - 1) : t[i] = "="}
    IN  IF eqs = {} THEN <<>>
        ELSE LET e == Min(eqs)
                 ends == {j \in (e + 1)..Len(t) : j = Len(t) \/ t[j + 1] = ";"}
                 v == Min(ends)
             IN  <<<<SubSeq(t, s, e - 1), SubSeq(t, e + 1, v)>>>>
                     \o FindKeyValue(t, v + 2)

\* \s of a str pattern, on the characters of the model
ReSpace == {" ", "\t", "\n", "\r", "\f"}

\* "[^"\\]*(?:\\.[^"\\]*)*" matched at t[s] = '"', scanning from index i:
\* the index of the closing quote, or 0
RECURSIVE QuotedEnd(_, _)
QuotedEnd(t, i) ==
    IF i > Len(t) THEN 0
    ELSE IF t[i] = "\"" THEN i
    ELSE IF t[i] = "\\"
         THEN IF i + 1 <= Len(t) /\ t[i + 1] # LF THEN QuotedEnd(t, i + 2) ELSE 0
    ELSE QuotedEnd(t, i + 1)

\* [^\s"]+ matched at index s: the index of the last character of the
\* longest run, or 0.  Only the longest run can be followed by \s.
BareEnd(t, s) ==
    LET stops == {i \in s..Len(t) : t[i] \in ReSpace \/ t[i] = "\""}
        stop == IF stops = {} THEN Len(t) + 1 ELSE Min(stops)
    IN  IF stop = s THEN 0 ELSE stop - 1

\* one side of _REG_PARSE_MALFORMED_JSON at index s: the index of its last
\* character, or 0
TokenEnd(t, s) ==
    IF s > Len(t) THEN 0
    ELSE IF t[s] = "\"" THEN QuotedEnd(t, s + 1)
    ELSE BareEnd(t, s)

\* _REG_PARSE_MALFORMED_JSON matched at index s: <<end of key, end of value>>
\* or <<0, 0>>
PairAt(t, s) ==
    LET ke == TokenEnd(t, s)
    IN  IF /\ ke # 0
           /\ ke + 3 <= Len(t)
           /\ t[ke + 1] \in ReSpace
           /\ t[ke + 2] = ":"
           /\ t[ke + 3] \in ReSpace
           /\ TokenEnd(t, ke + 4) # 0
        THEN <<ke, TokenEnd(t, ke + 4)>>
        ELSE <<0, 0>>

\* _REG_PARSE_MALFORMED_JSON.findall(t) from index s on
RECURSIVE FindMalformedJson(_, _)
FindMalformedJson(t, s) ==
    IF s > Len(t) THEN <<>>
    ELSE LET m == PairAt(t, s)
         IN  IF m[1] = 0 THEN FindMalformedJson(t, s + 1)
             ELSE <<<<SubSeq(t, s, m[1]), SubSeq(t, m[1] + 4, m[2])>>>>
                      \o FindMalformedJson(t, m[2] + 1)

\* DataDict that takes the quotes off the keys only
RECURSIVE DataDictKeysOnly(_, _)
DataDictKeysOnly(ps, d) ==
    IF ps = <<>> THEN d
    ELSE DataDictKeysOnly(Tail(ps),
                          DictSet(d, Remove(Head(ps)[1], "\""), Head(ps)[2]))

\* the dict comprehension of lines 205-210 over the pairs ps
RECURSIVE DataDict(_, _)
DataDict(ps, d) ==
    IF ps = <<>> THEN d
    ELSE DataDict(Tail(ps),
                  DictSet(d, Remove(Head(ps)[1], "\""), Remove(Head(ps)[2], "\"")))

KeyData == <<"d", "a", "t", "a">>
KeyCode == <<"C", "o", "d", "e">>

\* the loop of lines 201-211 over the pairs ps
RECURSIVE PayloadDict(_, _)
PayloadDict(ps, d) ==
    IF ps = <<>> THEN d
    ELSE LET Key == Head(ps)[1]
             Value == Head(ps)[2]
         IN  PayloadDict(Tail(ps),
                 DictSet(d, Key,
                     IF Key = KeyData
                     THEN MapValue(DataDict(FindMalformedJson(Value, 1), <<>>))
                     ELSE StrValue(Value)))

\* the text the key/value pattern is applied to
Cleaned(event_info) == Remove(Strip(event_info), LF)

\* payload of event_actions for one event_info
ParsePayload(event_info) == PayloadDict(FindKeyValue(Cleaned(event_info), 1), <<>>)

(***************************************************************************)
(* The response body.  The camera sends items: chunks (a content-length    *)
(* header line and its payload), other lines, and damaged pieces.          *)
(***************************************************************************)
\* the prefix tested at line 179
ContentLengthPrefix ==
    <<"c", "o", "n", "t", "e", "n", "t", "-", "l", "e", "n", "g", "t", "h", ":">>

HeaderTitle ==
    <<"C", "o", "n", "t", "e", "n", "t", "-", "L", "e", "n", "g", "t", "h", ":", " ">>
HeaderUpper ==
    <<"C", "O", "N", "T", "E", "N", "T", "-", "L", "E", "N", "G", "T", "H", ":", " ">>

PayloadA == <<"C", "o", "d", "e", "=", "A">>
PayloadB == <<"C", "o", "d", "e", "=", "B">>
PayloadNoCode == <<"i", "=", "1">>
\* a payload that holds a header line of its own
PayloadNested ==
    <<"C", "o", "d", "e", "=", "N">> \o CRLF \o HeaderTitle \o <<"1">> \o CRLF

\* the text of each item
ItemText ==
    [ChunkA      |-> HeaderTitle \o <<"6">> \o CRLF \o PayloadA,
     ChunkB      |-> ContentLengthPrefix \o <<"6">> \o CRLF \o PayloadB \o CRLF,
     ChunkNoCode |-> HeaderUpper \o <<"3">> \o CRLF \o PayloadNoCode,
     ChunkNested |-> HeaderTitle \o <<"2", "7">> \o CRLF \o PayloadNested,
     Noise       |-> <<"-", "-", "b">> \o CRLF,
     ZeroLen     |-> HeaderTitle \o <<"0">> \o CRLF,
     NegLen      |-> HeaderTitle \o <<"-", "1">> \o CRLF,
     BadLen      |-> HeaderTitle \o <<"x">> \o CRLF,
     HeaderOnly  |-> HeaderTitle \o <<"6">> \o CRLF,
     Partial     |-> <<"C", "o", "d">>]

BodyItems == DOMAIN ItemText

\* the payload an item announces with a header whose length is at least 1
ItemPayload ==
    [ChunkA |-> PayloadA, ChunkB |-> PayloadB, ChunkNoCode |-> PayloadNoCode,
     ChunkNested |-> PayloadNested]

Chunks == DOMAIN ItemPayload

RECURSIVE Flatten(_)
Flatten(items) ==
    IF items = <<>> THEN <<>> ELSE ItemText[Head(items)] \o Flatten(Tail(items))

ItemSeqs == UNION {[1..n -> BodyItems] : n \in 0..MaxItems}

VARIABLES
    api,         \* the operation called: "stream" for event_stream, "actions" for
                 \* event_actions, "lines" for _event_lines alone, or a property
    sent,        \* what the camera sends on the response: a sequence of items
                 \* (under PayloadSpec: the payload case of its one chunk)
    body,        \* the decoded characters of the response body
    pos,         \* how many characters of body the code has consumed
    pc,          \* where the generator stands
    chunk_size,  \* chunk_size of line 180
    line,        \* the buffer of _event_lines
    event_info,  \* the value event_stream handed to event_actions
    out,         \* the records handed to the caller, in order
    isOpen,      \* the response is open
    requests,    \* requests issued by self.command
    closes,      \* times the response was closed
    reads,       \* counted reads made (calls of line 181)
    err,         \* the exception the caller observed, or "none"
    cause,       \* __cause__ of that exception, or "none"
    end,         \* how the sequence ended, or "none"
    eventcodes,  \* the eventcodes argument of the call
    retries,     \* the retries argument of the call
    timeout_default,  \* self._timeout_default
    commands     \* the calls of self.command made, in order

\* what the call is given
call == <<eventcodes, retries, timeout_default>>

vars == <<api, sent, body, pos, pc, chunk_size, line, event_info, out, isOpen,
          requests, closes, reads, err, cause, end, call, commands>>

\* Python values the call is given: None, a number, a tuple of numbers
PyNone == [type |-> "NoneType", items |-> <<>>]
Number(n) == [type |-> "number", items |-> <<n>>]
Tuple(a, b) == [type |-> "tuple", items |-> <<a, b>>]

\* ",".join(codes), as a sequence of pieces
RECURSIVE Join(_)
Join(codes) ==
    IF Len(codes) <= 1 THEN codes
    ELSE <<Head(codes), ",">> \o Join(Tail(codes))

\* the f-string of line 169, as a sequence of pieces
CommandText(codes) ==
    <<"eventManager.cgi?action=attach&codes=[">> \o Join(codes) \o <<"]">>

\* TimeoutCmd that hands the default on as it is
TimeoutCmdWhole(default) == <<default, PyNone>>

\* lines 163-166: default[0] is the first element of a tuple and raises
\* TypeError on a number and on None, for which the default itself is taken
TimeoutCmd(default) ==
    IF default.type = "tuple"
    THEN <<Number(default.items[1]), PyNone>>
    ELSE <<default, PyNone>>

\* the call of self.command of lines 168-173
Command ==
    [cmd         |-> CommandText(eventcodes),
     retries     |-> retries,
     timeout_cmd |-> TimeoutCmd(timeout_default),
     stream      |-> TRUE]

\* one way of calling: every code, no retries value, a timeout pair
OneCall ==
    /\ eventcodes = <<"All">>
    /\ retries = PyNone
    /\ timeout_default = Tuple(3, 27)
    /\ commands = <<>>

\* a generator object is created by the call; nothing runs before next()
Init ==
    /\ OneCall
    /\ api \in {"stream", "actions"}
    /\ sent \in ItemSeqs
    /\ body = Flatten(sent)
    /\ pos = 0
    /\ pc = "created"
    /\ chunk_size = 0
    /\ line = <<>>
    /\ event_info = <<>>
    /\ out = <<>>
    /\ isOpen = FALSE
    /\ requests = 0
    /\ closes = 0
    /\ reads = 0
    /\ err = "none"
    /\ cause = "none"
    /\ end = "none"

\* the exceptions line 186 catches
TransportErrors == {"RequestException", "HTTPError"}

\* Release that leaves the response as it is
ReleaseNothing ==
    /\ isOpen' = isOpen
    /\ closes' = closes

\* leaving the with block of line 168: Response.__exit__ closes the response
Release ==
    /\ isOpen' = FALSE
    /\ closes' = closes + 1

\* the generator ends: how is what the caller sees (StopIteration, an
\* exception, or its own break), e the exception and c its cause
Finish(how, e, c) ==
    /\ pc' = "done"
    /\ end' = how
    /\ err' = e
    /\ cause' = c

\* Start that also resubscribes once the sequence has ended
StartAgain ==
    /\ pc \in {"created", "done"}
    /\ commands' = Append(commands, Command)
    /\ requests' = requests + 1
    /\ isOpen' = TRUE
    /\ pc' = "scan"
    /\ UNCHANGED <<call, api, sent, body, pos, chunk_size, line, event_info, out,
                   closes, reads, err, cause, end>>

\* first next(): lines 155-176, the request is issued and the response opened
Start ==
    /\ pc = "created"
    /\ commands' = Append(commands, Command)
    /\ requests' = requests + 1
    /\ isOpen' = TRUE
    /\ pc' = "scan"
    /\ UNCHANGED <<call, api, sent, body, pos, chunk_size, line, event_info, out,
                   closes, reads, err, cause, end>>

\* NextLineEnd that ends a line at every LF, as readline does
NextLineEndAtLF(b, p) ==
    LET ends == {j \in (p + 1)..Len(b) : b[j] = LF}
    IN  IF ends = {} THEN 0 ELSE Min(ends)

\* _event_lines from position p: the index of the LF that completes the
\* next line (the buffer ends with CR LF), or 0 when the body ends first
NextLineEnd(b, p) ==
    LET ends == {j \in (p + 2)..Len(b) : b[j - 1] = CR /\ b[j] = LF}
    IN  IF ends = {} THEN 0 ELSE Min(ends)

\* IsHeader that compares without lower-casing
IsHeaderExact(l) == StartsWith(l, ContentLengthPrefix)

\* the test of line 179
IsHeader(l) == StartsWith(Lower(l), ContentLengthPrefix)

\* the generator is running or suspended at a yield, from where the caller's
\* next() resumes it
Scanning == pc \in {"scan", "yielded"}

\* one turn of the loop of line 178: _event_lines reads up to the next CR LF
\* (lines 221-227), then lines 179-180
ScanLine ==
    /\ Scanning
    /\ LET j == NextLineEnd(body, pos)
           l == Strip(SubSeq(body, pos + 1, j))
       IN  IF j = 0
           THEN \* the body is exhausted: both loops end, the with block exits
                /\ pos' = Len(body)
                /\ line' = SubSeq(body, pos + 1, Len(body))
                /\ Release
                /\ Finish("exhausted", "none", "none")
                /\ UNCHANGED chunk_size
           ELSE \* the buffer keeps the line while _event_lines is suspended
                \* at its yield; line 227 clears it when the scan resumes
                /\ pos' = j
                /\ line' = SubSeq(body, pos + 1, j)
                /\ IF ~IsHeader(l)
                   THEN /\ pc' = "scan"
                        /\ UNCHANGED <<chunk_size, isOpen, closes, err, cause, end>>
                   ELSE IF IsInt(SplitColon1(l))
                   THEN /\ chunk_size' = IntValue(SplitColon1(l))
                        /\ pc' = "payload"
                        /\ UNCHANGED <<isOpen, closes, err, cause, end>>
                   ELSE \* int() raises ValueError, which line 186 lets through
                        /\ Release
                        /\ Finish("error", "ValueError", "none")
                        /\ UNCHANGED chunk_size
    /\ UNCHANGED <<call, commands, api, sent, body, event_info, out, requests, reads>>

\* what next(ret.iter_content(chunk_size=n, decode_unicode=True)) can do with
\* rem characters left on the body.  iter_content never yields an empty
\* string: with nothing left to read the iterator is empty and next() raises
\* StopIteration; a chunk_size of 0 reads nothing for ever (urllib3) or ends
\* the iterator (a raw object without stream()); a negative chunk_size is
\* refused by the raw read (ValueError) or read as "no limit"
ReadOutcomes(n, rem) ==
    IF n >= 1 THEN (IF rem >= 1 THEN {"data"} ELSE {"stop"})
    ELSE IF n = 0 THEN {"hang", "stop"}
    ELSE {"ValueError", IF rem >= 1 THEN "data" ELSE "stop"}

\* ReadLength with the length taken one too small
ReadLengthOneLess(n, rem) == IF n >= 2 /\ n - 1 < rem THEN n - 1 ELSE rem

\* ReadLength of a read that takes whatever the body still holds
ReadLengthWhole(n, rem) == rem

\* how many characters that read returns when it returns data
ReadLength(n, rem) == IF n >= 1 /\ n < rem THEN n ELSE rem

\* the yield of line 181: to the caller of event_stream, or to the loop of
\* line 198 in event_actions
Yield(data) ==
    IF api = "stream"
    THEN /\ out' = Append(out, data)
         /\ pc' = "yielded"
         /\ UNCHANGED event_info
    ELSE /\ event_info' = data
         /\ pc' = "decode"
         /\ UNCHANGED out

\* ReadPayload whose read leaves the position of the scanner where it was
ReadPayloadPeek ==
    /\ pc = "payload"
    /\ reads' = reads + 1
    /\ \E o \in ReadOutcomes(chunk_size, Len(body) - pos) :
           LET k == ReadLength(chunk_size, Len(body) - pos)
           IN  CASE o = "data" ->
                        /\ pos' = pos
                        /\ Yield(SubSeq(body, pos + 1, pos + k))
                        /\ UNCHANGED <<isOpen, closes, err, cause, end>>
                 [] o = "stop" ->
                        /\ Release
                        /\ Finish("error", "RuntimeError", "StopIteration")
                        /\ UNCHANGED <<pos, out, event_info>>
                 [] o = "ValueError" ->
                        /\ Release
                        /\ Finish("error", "ValueError", "none")
                        /\ UNCHANGED <<pos, out, event_info>>
                 [] o = "hang" ->
                        /\ pc' = "hung"
                        /\ UNCHANGED <<pos, out, event_info, isOpen, closes,
                                       err, cause, end>>
    /\ UNCHANGED <<call, commands, api, sent, body, chunk_size, line, requests>>

\* lines 181-185: the counted read and the yield of its result
ReadPayload ==
    /\ pc = "payload"
    /\ reads' = reads + 1
    /\ \E o \in ReadOutcomes(chunk_size, Len(body) - pos) :
           LET k == ReadLength(chunk_size, Len(body) - pos)
           IN  CASE o = "data" ->
                        /\ pos' = pos + k
                        /\ Yield(SubSeq(body, pos + 1, pos + k))
                        /\ UNCHANGED <<isOpen, closes, err, cause, end>>
                 [] o = "stop" ->
                        \* StopIteration inside a generator becomes RuntimeError
                        /\ Release
                        /\ Finish("error", "RuntimeError", "StopIteration")
                        /\ UNCHANGED <<pos, out, event_info>>
                 [] o = "ValueError" ->
                        /\ Release
                        /\ Finish("error", "ValueError", "none")
                        /\ UNCHANGED <<pos, out, event_info>>
                 [] o = "hang" ->
                        /\ pc' = "hung"
                        /\ UNCHANGED <<pos, out, event_info, isOpen, closes,
                                       err, cause, end>>
    /\ UNCHANGED <<call, commands, api, sent, body, chunk_size, line, requests>>

\* Decode with payload.get("Code") in place of payload["Code"]: no KeyError
DecodeLenient ==
    /\ pc = "decode"
    /\ LET payload == ParsePayload(event_info)
       IN  out' = Append(out, [code |-> IF HasKey(payload, KeyCode)
                                        THEN Get(payload, KeyCode).str
                                        ELSE <<>>,
                               payload |-> payload])
    /\ pc' = "yielded"
    /\ UNCHANGED <<call, commands, api, sent, body, pos, chunk_size, line, event_info, isOpen,
                   closes, err, cause, end, requests, reads>>

\* Decode that drops a record equal to the one yielded before it
DecodeDedup ==
    /\ pc = "decode"
    /\ LET payload == ParsePayload(event_info)
           record == [code |-> Get(payload, KeyCode).str, payload |-> payload]
       IN  IF ~HasKey(payload, KeyCode)
           THEN /\ Release
                /\ Finish("error", "KeyError", "none")
                /\ UNCHANGED out
           ELSE /\ IF out # <<>> /\ out[Len(out)] = record
                   THEN pc' = "scan" /\ UNCHANGED out
                   ELSE pc' = "yielded" /\ out' = Append(out, record)
                /\ UNCHANGED <<isOpen, closes, err, cause, end>>
    /\ UNCHANGED <<call, commands, api, sent, body, pos, chunk_size, line, event_info,
                   requests, reads>>

\* lines 199-218 of event_actions for one event_info
Decode ==
    /\ pc = "decode"
    /\ LET payload == ParsePayload(event_info)
       IN  IF HasKey(payload, KeyCode)
           THEN /\ out' = Append(out, [code |-> Get(payload, KeyCode).str,
                                       payload |-> payload])
                /\ pc' = "yielded"
                /\ UNCHANGED <<isOpen, closes, err, cause, end>>
           ELSE \* payload["Code"] raises KeyError; the generator of
                \* event_stream, suspended at its yield, is dropped with the
                \* frame of event_actions and closed, which exits its with block
                /\ Release
                /\ Finish("error", "KeyError", "none")
                /\ UNCHANGED out
    /\ UNCHANGED <<call, commands, api, sent, body, pos, chunk_size, line, event_info,
                   requests, reads>>

\* how many characters of the current line the scanner may still get
Ahead == LET j == NextLineEnd(body, pos)
         IN  IF j = 0 THEN Len(body) - pos ELSE j - pos - 1

\* TransportError with an except clause that names RequestException only
TransportErrorHalfCaught ==
    /\ \E e \in TransportErrors :
       /\ \/ /\ Scanning
             /\ \E k \in 0..MaxErrOffset :
                    /\ k <= Ahead
                    /\ pos' = pos + k
                    /\ line' = SubSeq(body, pos + 1, pos + k)
             /\ UNCHANGED reads
          \/ /\ pc = "payload"
             /\ reads' = reads + 1
             /\ UNCHANGED <<pos, line>>
       /\ Release
       /\ IF e = "RequestException"
          THEN Finish("error", "CommError", e)
          ELSE Finish("error", e, "none")
    /\ UNCHANGED <<call, commands, api, sent, body, chunk_size, event_info, out, requests>>

\* lines 186-190: the transport raises e, in the scanner after k more
\* characters or in the counted read
TransportError ==
    /\ \E e \in TransportErrors :
       /\ \/ /\ Scanning
             /\ \E k \in 0..MaxErrOffset :
                    /\ k <= Ahead
                    /\ pos' = pos + k
                    /\ line' = SubSeq(body, pos + 1, pos + k)
             /\ UNCHANGED reads
          \/ /\ pc = "payload"
             /\ reads' = reads + 1
             /\ UNCHANGED <<pos, line>>
       /\ Release
       /\ Finish("error", "CommError", e)
    /\ UNCHANGED <<call, commands, api, sent, body, chunk_size, event_info, out, requests>>

\* Break on a generator that holds the response without a with block
BreakLeavesOpen ==
    /\ pc = "yielded"
    /\ Finish("abandoned", "none", "none")
    /\ UNCHANGED <<call, commands, api, sent, body, pos, chunk_size, line, event_info, out,
                   requests, reads, isOpen, closes>>

\* the caller leaves its loop with a record in hand: the generator is closed,
\* GeneratorExit is raised at the yield and the with block exits
Break ==
    /\ pc = "yielded"
    /\ Release
    /\ Finish("abandoned", "none", "none")
    /\ UNCHANGED <<call, commands, api, sent, body, pos, chunk_size, line, event_info, out,
                   requests, reads>>

Next ==
    \/ Start
    \/ ScanLine
    \/ ReadPayload
    \/ Decode
    \/ TransportError
    \/ Break

Spec == Init /\ [][Next]_vars

(***************************************************************************)
(* Properties.                                                             *)
(***************************************************************************)
Count(items, S) == Cardinality({i \in 1..Len(items) : items[i] \in S})
Only(items, S) == \A i \in 1..Len(items) : items[i] \in S

\* the chunks of items, in order
ChunksOf(items) == SelectSeq(items, LAMBDA x : x \in Chunks)

\* the caller has seen the sequence end by itself (no transport error, no
\* break), or waits for ever for a record that never comes
Settled == \/ pc = "hung"
           \/ pc = "done" /\ end # "abandoned" /\ err # "CommError"

\* C1: for every well-formed body (chunks, each a content-length header line
\* carrying an integer N followed by N payload characters, with non-header
\* lines between them), once the sequence has ended the number of records
\* yielded by event_stream, and by event_actions when every payload has a
\* Code key, equals the number of content-length header lines in the body.
C1_RecordPerHeader ==
    (/\ Settled
     /\ \/ api = "stream" /\ Only(sent, {"ChunkA", "ChunkB", "ChunkNoCode", "ZeroLen", "Noise"})
        \/ api = "actions" /\ Only(sent, {"ChunkA", "ChunkB", "Noise"}))
    => Len(out) = Count(sent, {"ChunkA", "ChunkB", "ChunkNoCode", "ZeroLen"})

\* C1, for headers that carry an N of at least 1: the sequence ends without
\* an error and has yielded one record per header.
C1_RecordPerChunk ==
    (/\ Settled
     /\ \/ api = "stream" /\ Only(sent, {"ChunkA", "ChunkB", "ChunkNoCode", "Noise"})
        \/ api = "actions" /\ Only(sent, {"ChunkA", "ChunkB", "Noise"}))
    => /\ Len(out) = Count(sent, Chunks)
       /\ end = "exhausted"
       /\ err = "none"

\* the value event_stream yielded last
Yielded == IF api = "stream" THEN out[Len(out)] ELSE event_info

\* C2: when a header line 'Content-Length: N' has been recognised and the
\* body holds at least N more characters right after the line's CRLF, the
\* value event_stream yields for the chunk is exactly the N characters that
\* follow the header line, whatever comes after them.
C2_PayloadExact ==
    [][(/\ pc = "payload"
        /\ pc' \in {"yielded", "decode"}
        /\ chunk_size >= 0
        /\ chunk_size <= Len(body) - pos)
       => /\ Yielded' = SubSeq(body, pos + 1, pos + chunk_size)
          /\ Len(Yielded') = chunk_size
          /\ pos' = pos + chunk_size]_vars

C2_Witness ==
    /\ api = "stream"
    /\ pc = "yielded"
    /\ sent = <<"ChunkNoCode", "Noise", "ChunkA">>
    /\ out = <<PayloadNoCode>>
    /\ pos < Len(body)

C4_ClosedAtEnd ==
    pc = "done" => /\ ~isOpen
                   /\ requests = 1
                   /\ closes = 1
                   /\ end \in {"exhausted", "error", "abandoned"}
                   /\ (end = "error") = (err # "none")

C4_Witness ==
    /\ pc = "done"
    /\ err = "KeyError"
    /\ ~isOpen
    /\ pos < Len(body)

\* C5: a transport exception raised while event_stream iterates, in the line
\* scanner or in the counted read, reaches the caller as CommError whose cause
\* is that exception, never as itself; the generator is then finished, the
\* step yields no record and no step follows it.
C5_OneCommError ==
    [][/\ err' \notin TransportErrors
       /\ err' = "CommError"
          => /\ err = "none"
             /\ cause' \in TransportErrors
             /\ pc' = "done"
             /\ end' = "error"
             /\ out' = out]_vars

C5_Witness ==
    /\ err = "CommError"
    /\ cause = "HTTPError"
    /\ reads = 2
    /\ Len(out) = 1
    /\ pos < Len(body)

\* C6: when a decoded payload has no Code key, event_actions raises an error
\* for that chunk and yields no record for it; the generator is finished, so
\* no record is yielded afterwards, whatever chunks follow on the body.
C6_MissingCodeHalts ==
    [][/\ err = "none"
       /\ (pc = "decode" /\ ~HasKey(ParsePayload(event_info), KeyCode))
          => /\ err' = "KeyError"
             /\ pc' = "done"
             /\ out' = out]_vars

C6_Witness ==
    /\ err = "KeyError"
    /\ sent = <<"ChunkA", "ChunkNoCode", "ChunkB">>
    /\ Len(out) = 1
    /\ pc = "done"

\* the text after the colon of a header line
AfterColon(l) == SubSeq(l, Len(ContentLengthPrefix) + 1, Len(l))

\* t is a non-negative integer in decimal digits
IsNonNegativeInteger(t) ==
    LET d == Strip(t)
    IN  d # <<>> /\ \A i \in 1..Len(d) : IsDigit(d[i])

\* C7: when the scanner completes a line that starts with 'content-length:'
\* and whose text after the colon is not a non-negative integer, event_stream
\* fails with an error for the caller and sets up no counted read: the
\* generator is finished and no record is yielded.
C7_BadLengthFails ==
    [][LET j == NextLineEnd(body, pos)
           l == Strip(SubSeq(body, pos + 1, j))
       IN  (/\ Scanning
            /\ j # 0
            /\ pos' = j
            /\ IsHeader(l)
            /\ ~IsNonNegativeInteger(AfterColon(l)))
           => /\ err' # "none"
              /\ pc' = "done"
              /\ reads' = reads
              /\ out' = out]_vars

\* the record event_actions yields for each chunk that has a Code
RecordOf ==
    [ChunkA |-> [code |-> <<"A">>, payload |-> <<<<KeyCode, StrValue(<<"A">>)>>>>],
     ChunkB |-> [code |-> <<"B">>, payload |-> <<<<KeyCode, StrValue(<<"B">>)>>>>]]

\* C8: the records event_actions has yielded are, in order, the decodings of
\* the first chunks of the body: the k-th record is the decoding of the k-th
\* chunk, none dropped, none repeated, none merged with an identical
\* neighbour, all of them yielded when the body is exhausted; and each record
\* is (payload['Code'], payload).
C8_InOrder ==
    api = "actions"
    => /\ \A k \in 1..Len(out) :
              out[k].code = Get(out[k].payload, KeyCode).str
       /\ Only(sent, {"ChunkA", "ChunkB", "Noise"})
          => /\ Len(out) <= Len(ChunksOf(sent))
             /\ \A k \in 1..Len(out) : out[k] = RecordOf[ChunksOf(sent)[k]]
             /\ end = "exhausted" => Len(out) = Len(ChunksOf(sent))

C8_Witness ==
    /\ api = "actions"
    /\ sent = <<"ChunkB", "ChunkA", "ChunkA">>
    /\ end = "exhausted"
    /\ Len(out) = 3
    /\ out[2] = out[3]
    /\ out[1] # out[2]

(***************************************************************************)
(* Payload decoding on its own: event_actions on a body of one chunk whose *)
(* payload text is drawn from a family of texts.                           *)
(***************************************************************************)
\* values of a key=value pair have at most MaxValueLen characters
MaxValueLen == 2

ValueChars == {"v", "=", " ", LF}
PairValues == UNION {[1..n -> ValueChars] : n \in 1..MaxValueLen}
PairKeys == {<<"k">>, KeyData}
ExtraPairs == PairKeys \X PairValues
CodePair == <<KeyCode, <<"V">>>>

\* key=value pairs joined by ";"
RECURSIVE JoinPairs(_)
JoinPairs(ps) ==
    IF ps = <<>> THEN <<>>
    ELSE Head(ps)[1] \o <<"=">> \o Head(ps)[2]
         \o (IF Tail(ps) = <<>> THEN <<>> ELSE <<";">> \o JoinPairs(Tail(ps)))

\* the sides of a 'key : value' pair of a data text: a bare token, a quoted
\* string with a space in it, a quoted string with an escaped quote in it
TokenText ==
    [bare    |-> <<"b">>,
     quoted  |-> <<"\"", "k", " ", "o", "\"">>,
     escaped |-> <<"\"", "a", "\\", "\"", "c", "\"">>]
Tokens == DOMAIN TokenText
DataPairs == Tokens \X Tokens

\* 'key : value' pairs separated by one space
RECURSIVE JoinData(_)
JoinData(ds) ==
    IF ds = <<>> THEN <<>>
    ELSE TokenText[Head(ds)[1]] \o <<" ", ":", " ">> \o TokenText[Head(ds)[2]]
         \o (IF Tail(ds) = <<>> THEN <<>> ELSE <<" ">> \o JoinData(Tail(ds)))

DataPrefix == <<"C", "o", "d", "e", "=", "V", ";", "d", "a", "t", "a", "=">>

\* ' "key one" : bareValue '
ExampleDataText ==
    <<" ", "\"", "k", "e", "y", " ", "o", "n", "e", "\"", " ", ":", " ",
      "b", "a", "r", "e", "V", "a", "l", "u", "e", " ">>

\* 'Code=VideoMotion;action=Start;index=0;data="Object[0]" : "1"'
ExamplePayloadText ==
    <<"C", "o", "d", "e", "=", "V", "i", "d", "e", "o", "M", "o", "t", "i", "o",
      "n", ";", "a", "c", "t", "i", "o", "n", "=", "S", "t", "a", "r", "t", ";",
      "i", "n", "d", "e", "x", "=", "0", ";", "d", "a", "t", "a", "=", "\"", "O",
      "b", "j", "e", "c", "t", "[", "0", "]", "\"", " ", ":", " ", "\"", "1", "\"">>

PairsCase(ps) ==
    [kind |-> "pairs", pairs |-> <<CodePair>> \o ps, data |-> <<>>,
     text |-> JoinPairs(<<CodePair>> \o ps)]
DataCase(ds) ==
    [kind |-> "data", pairs |-> <<>>, data |-> ds,
     text |-> DataPrefix \o JoinData(ds)]

\* the payload texts, each with the pairs it was made of
PayloadCases ==
    {PairsCase(<<>>)}
    \cup {PairsCase(<<p>>) : p \in ExtraPairs}
    \cup {PairsCase(<<p, q>>) : p \in ExtraPairs, q \in ExtraPairs}
    \cup {DataCase(<<d>>) : d \in DataPairs}
    \cup {DataCase(<<d, e>>) : d \in DataPairs, e \in DataPairs}
    \cup {[kind |-> "example1", pairs |-> <<>>, data |-> <<>>,
           text |-> DataPrefix \o ExampleDataText],
          [kind |-> "example2", pairs |-> <<>>, data |-> <<>>,
           text |-> ExamplePayloadText]}

\* n in decimal, for n < 100
Decimal(n) ==
    IF n < 10 THEN <<Digits[n + 1]>>
    ELSE <<Digits[(n \div 10) + 1], Digits[(n % 10) + 1]>>

\* the chunk that carries text
ChunkFor(text) == HeaderTitle \o Decimal(Len(text)) \o CRLF \o text

PayloadInit ==
    /\ OneCall
    /\ api = "actions"
    /\ sent \in PayloadCases
    /\ body = ChunkFor(sent.text)
    /\ pos = 0
    /\ pc = "created"
    /\ chunk_size = 0
    /\ line = <<>>
    /\ event_info = <<>>
    /\ out = <<>>
    /\ isOpen = FALSE
    /\ requests = 0
    /\ closes = 0
    /\ reads = 0
    /\ err = "none"
    /\ cause = "none"
    /\ end = "none"

\* the body is delivered without a transport error and consumed to its end
PayloadNext ==
    \/ Start
    \/ ScanLine
    \/ ReadPayload
    \/ Decode

PayloadSpec == PayloadInit /\ [][PayloadNext]_vars

\* the chunk has been decoded and its record yielded
Decoded == pc = "yielded" /\ Len(out) = 1

\* the last pair of ps with the key of ps[i] is ps[i]
LastOfKey(ps, i) == \A j \in (i + 1)..Len(ps) : ps[j][1] # ps[i][1]

\* the payload has the keys of the pairs ps, and each key but 'data' has the
\* value of its (last) pair, unchanged
DecodesPairs(payload, ps) ==
    /\ Keys(payload) = {ps[i][1] : i \in 1..Len(ps)}
    /\ Len(payload) = Cardinality(Keys(payload))
    /\ \A i \in 1..Len(ps) :
           (ps[i][1] # KeyData /\ LastOfKey(ps, i))
           => Get(payload, ps[i][1]) = StrValue(ps[i][2])

\* C9 as stated: for every payload text made of key=value pairs joined by
\* ';' whose values hold no ';', the decoded payload has exactly the keys of
\* the pairs and maps every key but 'data' to the value of its pair, unchanged.
C9_ValuesUnchanged ==
    sent.kind = "pairs"
    => /\ err # "KeyError"
       /\ Decoded => DecodesPairs(out[1].payload, sent.pairs)

\* the text holds no newline and does not end with whitespace
CleanText(t) == /\ \A i \in 1..Len(t) : t[i] # LF
                /\ t[Len(t)] \notin Whitespace
                /\ t[1] \notin Whitespace

\* C9 as amended: the same, for texts that hold no newline and neither start
\* nor end with whitespace (event_actions strips the text and removes its
\* newlines before it splits it into pairs).
C9_CleanValuesUnchanged ==
    (sent.kind = "pairs" /\ CleanText(sent.text))
    => /\ err # "KeyError"
       /\ Decoded => DecodesPairs(out[1].payload, sent.pairs)

C9_Witness ==
    /\ Decoded
    /\ sent.kind = "pairs"
    /\ sent.pairs = <<CodePair, <<<<"k">>, <<"=", "v">>>>, <<KeyData, <<" ", "=">>>>>>
    /\ Get(out[1].payload, <<"k">>) = StrValue(<<"=", "v">>)

\* a token with its surrounding quotes removed, when it has them
TokenUnquoted ==
    [bare    |-> <<"b">>,
     quoted  |-> <<"k", " ", "o">>,
     escaped |-> <<"a", "\\", "\"", "c">>]

\* a token with every double quote removed
TokenNoQuotes ==
    [bare    |-> <<"b">>,
     quoted  |-> <<"k", " ", "o">>,
     escaped |-> <<"a", "\\", "c">>]

\* the dict with one entry per pair of ds, each side read through value
RECURSIVE DictOf(_, _, _)
DictOf(ds, value, d) ==
    IF ds = <<>> THEN d
    ELSE DictOf(Tail(ds), value, DictSet(d, value[Head(ds)[1]], value[Head(ds)[2]]))

\* what ' "key one" : bareValue ' is to give
ExampleData ==
    <<<<<<"k", "e", "y", " ", "o", "n", "e">>,
        <<"b", "a", "r", "e", "V", "a", "l", "u", "e">>>>>>

\* what the payload text of the second example is to give
ExamplePayload ==
    <<<<KeyCode, StrValue(<<"V", "i", "d", "e", "o", "M", "o", "t", "i", "o", "n">>)>>,
      <<<<"a", "c", "t", "i", "o", "n">>, StrValue(<<"S", "t", "a", "r", "t">>)>>,
      <<<<"i", "n", "d", "e", "x">>, StrValue(<<"0">>)>>,
      <<KeyData, MapValue(<<<<<<"O", "b", "j", "e", "c", "t", "[", "0", "]">>,
                             <<"1">>>>>>)>>>>

\* the two examples of C10 decode as the claim says
ExamplesDecode ==
    /\ sent.kind \in {"example1", "example2"} => err # "KeyError"
    /\ (Decoded /\ sent.kind = "example1")
       => Get(out[1].payload, KeyData) = MapValue(ExampleData)
    /\ (Decoded /\ sent.kind = "example2")
       => out[1] = [code |-> <<"V", "i", "d", "e", "o", "M", "o", "t", "i", "o", "n">>,
                    payload |-> ExamplePayload]

\* the data value decodes to one entry per pair, each side read through value
DataDecodes(value) ==
    /\ sent.kind = "data" => err # "KeyError"
    /\ (Decoded /\ sent.kind = "data")
       => Get(out[1].payload, KeyData) = MapValue(DictOf(sent.data, value, <<>>))

\* C10 as stated: the value of 'data' decodes to a nested mapping with one
\* entry per 'key : value' pair, a double-quoted side with its surrounding
\* quotes removed and a bare side as it is; and the two examples decode to
\* the payloads the claim gives.
C10_SurroundingQuotesRemoved == ExamplesDecode /\ DataDecodes(TokenUnquoted)

\* C10 as amended: the same, a double-quoted side losing every double quote
\* in it, the surrounding ones and the backslash-escaped ones inside.
C10_AllQuotesRemoved == ExamplesDecode /\ DataDecodes(TokenNoQuotes)

C10_Witness ==
    /\ Decoded
    /\ sent.kind = "example2"
    /\ Get(out[1].payload, KeyData).map = <<<<<<"O", "b", "j", "e", "c", "t", "[", "0", "]">>, <<"1">>>>>>

(***************************************************************************)
(* _event_lines on its own (lines 221-227): the generator is fed any       *)
(* character sequence and every next() on it returns one line.             *)
(***************************************************************************)
MaxChars == 4

LineChars == {CR, LF, "a", " "}
CharSeqs == UNION {[1..n -> LineChars] : n \in 0..MaxChars}

LinesInit ==
    /\ OneCall
    /\ api = "lines"
    /\ sent \in CharSeqs
    /\ body = sent
    /\ pos = 0
    /\ pc = "scan"
    /\ chunk_size = 0
    /\ line = <<>>
    /\ event_info = <<>>
    /\ out = <<>>
    /\ isOpen = TRUE
    /\ requests = 1
    /\ closes = 0
    /\ reads = 0
    /\ err = "none"
    /\ cause = "none"
    /\ end = "none"

\* one next() on _event_lines: characters are appended to the buffer until
\* it ends with CR LF (line 225), the stripped buffer is yielded (line 226)
\* and the buffer cleared (line 227); when the characters run out the for
\* loop of line 223 ends and with it the generator
EventLine ==
    /\ api = "lines"
    /\ pc = "scan"
    /\ LET j == NextLineEnd(body, pos)
       IN  IF j = 0
           THEN /\ pos' = Len(body)
                /\ line' = SubSeq(body, pos + 1, Len(body))
                /\ Finish("exhausted", "none", "none")
                /\ UNCHANGED out
           ELSE \* the buffer keeps the line while _event_lines is suspended
                \* at its yield; line 227 clears it when the scan resumes
                /\ pos' = j
                /\ line' = SubSeq(body, pos + 1, j)
                /\ out' = Append(out, Strip(SubSeq(body, pos + 1, j)))
                /\ UNCHANGED <<pc, err, cause, end>>
    /\ UNCHANGED <<call, commands, api, sent, body, chunk_size, event_info, isOpen, requests,
                   closes, reads>>

LinesNext == EventLine

LinesSpec == LinesInit /\ [][LinesNext]_vars

\* the positions of the LF of every CR LF in t
CrLfEnds(t) == {j \in 2..Len(t) : t[j - 1] = CR /\ t[j] = LF}

\* the k-th of them, and 0 for k = 0
KthEnd(t, k) ==
    IF k = 0 THEN 0
    ELSE CHOOSE j \in CrLfEnds(t) : Cardinality({i \in CrLfEnds(t) : i <= j}) = k

\* l is seg without its whitespace at both ends
Trimmed(seg, l) ==
    /\ l = <<>> \/ (l[1] \notin Whitespace /\ l[Len(l)] \notin Whitespace)
    /\ \E i \in 0..Len(seg) :
           /\ i + Len(l) <= Len(seg)
           /\ l = SubSeq(seg, i + 1, i + Len(l))
           /\ \A n \in (1..i) \cup ((i + Len(l) + 1)..Len(seg)) :
                  seg[n] \in Whitespace

\* C11: the lines _event_lines emits are, in order, the segments that end at
\* each CR LF of the input, each without its terminator and surrounding
\* whitespace; a lone CR or LF ends no line; what follows the last CR LF is
\* never emitted and the sequence then ends without error
C11_LinesAreSegments ==
    api = "lines" =>
        /\ Len(out) <= Cardinality(CrLfEnds(body))
        /\ \A k \in 1..Len(out) :
               Trimmed(SubSeq(body, KthEnd(body, k - 1) + 1, KthEnd(body, k)),
                       out[k])
        /\ pos >= KthEnd(body, Len(out))
        /\ pc = "done" =>
               /\ Len(out) = Cardinality(CrLfEnds(body))
               /\ end = "exhausted"
               /\ err = "none"

\* a lone LF, a lone CR and a CR LF were fed, with text after the CR LF, and
\* the sequence has ended
C11_Witness ==
    /\ api = "lines"
    /\ pc = "done"
    /\ body = <<LF, "a", CR, LF>> \/ body = <<CR, "a", CR, LF>>
           \/ body = <<"a", CR, LF, "a">>
    /\ Len(out) = 1

(***************************************************************************)
(* One request per call.                                                   *)
(***************************************************************************)
\* C12: a call of event_stream or event_actions issues one request over its
\* whole life, at its first next(); once its sequence has ended (exhausted,
\* abandoned or failed) it issues no further request and yields no further
\* record
C12_OneRequestPerCall ==
    [][/\ requests' = IF pc' = "created" THEN 0 ELSE 1
       /\ requests' # requests => pc = "created"
       /\ pc = "done" => /\ pc' = "done"
                         /\ requests' = requests
                         /\ out' = out]_vars

\* a sequence that yielded two records and then ran out of body, on its one
\* request
C12_Witness ==
    /\ api \in {"stream", "actions"}
    /\ pc = "done"
    /\ end = "exhausted"
    /\ Len(out) = 2
    /\ requests = 1

(***************************************************************************)
(* The request: event_stream called with any codes, retries value and      *)
(* default timeout, on a camera that sends an empty body.                  *)
(***************************************************************************)
MaxCodes == 2

EventCodes == {"VideoMotion", "AlarmLocal", "All"}
CodeSeqs == UNION {[1..n -> EventCodes] : n \in 0..MaxCodes}
TimeoutValues == {3, 27}
RetriesValues == {PyNone, Number(0), Number(3)}
TimeoutDefaults ==
    {Tuple(a, b) : a \in TimeoutValues, b \in TimeoutValues}
        \cup {Number(a) : a \in TimeoutValues} \cup {PyNone}

RequestInit ==
    /\ eventcodes \in CodeSeqs
    /\ retries \in RetriesValues
    /\ timeout_default \in TimeoutDefaults
    /\ commands = <<>>
    /\ api \in {"stream", "actions"}
    /\ sent = <<>>
    /\ body = <<>>
    /\ pos = 0
    /\ pc = "created"
    /\ chunk_size = 0
    /\ line = <<>>
    /\ event_info = <<>>
    /\ out = <<>>
    /\ isOpen = FALSE
    /\ requests = 0
    /\ closes = 0
    /\ reads = 0
    /\ err = "none"
    /\ cause = "none"
    /\ end = "none"

RequestNext ==
    \/ Start
    \/ ScanLine

RequestSpec == RequestInit /\ [][RequestNext]_vars

\* text is the given codes in their order with one "," between neighbours,
\* inside one pair of brackets after the attach command
IsAttachText(text, codes) ==
    LET n == Len(codes)
    IN  /\ Len(text) = IF n = 0 THEN 2 ELSE 2 * n + 1
        /\ text[1] = "eventManager.cgi?action=attach&codes=["
        /\ text[Len(text)] = "]"
        /\ \A k \in 1..n : text[2 * k] = codes[k]
        /\ \A k \in 1..(n - 1) : text[2 * k + 1] = ","

\* C13: the one request of event_stream is the attach command with the given
\* codes joined by "," in their order inside one pair of brackets, streaming,
\* with the caller's retries value as given, and with a timeout pair whose
\* read part is None and whose connect part is the first element of the
\* default timeout when that is a pair and the default itself otherwise
C13_AttachRequest ==
    /\ Len(commands) = IF pc = "created" THEN 0 ELSE 1
    /\ \A i \in 1..Len(commands) :
           /\ IsAttachText(commands[i].cmd, eventcodes)
           /\ commands[i].stream
           /\ commands[i].retries = retries
           /\ commands[i].timeout_cmd[2] = PyNone
           /\ commands[i].timeout_cmd[1] =
                  IF timeout_default.type = "tuple"
                  THEN Number(timeout_default.items[1])
                  ELSE timeout_default

\* a request for two codes made under a default timeout pair with a retries
\* value
C13_Witness ==
    /\ Len(commands) = 1
    /\ Len(eventcodes) = 2
    /\ eventcodes[1] # eventcodes[2]
    /\ timeout_default.type = "tuple"
    /\ timeout_default.items[1] # timeout_default.items[2]
    /\ retries = Number(3)

(***************************************************************************)
(* How far the body has been consumed when a record is handed over.        *)
(***************************************************************************)
\* the length of the header line of chunk c, its CR LF included
HeaderLineLen(c) ==
    CHOOSE n \in 1..Len(ItemText[c]) :
        /\ ItemText[c][n] = LF
        /\ \A i \in 1..(n - 1) : ItemText[c][i] # LF

\* the position in Flatten(items) of the last payload character of the k-th
\* chunk among items
RECURSIVE PayloadEnd(_, _)
PayloadEnd(items, k) ==
    LET h == Head(items)
    IN  IF h \in Chunks /\ k = 1
        THEN HeaderLineLen(h) + Len(ItemPayload[h])
        ELSE Len(ItemText[h])
                 + PayloadEnd(Tail(items), IF h \in Chunks THEN k - 1 ELSE k)

\* C14: nothing is read before the first record is asked for, and when the
\* k-th record is handed to the caller the body has been consumed exactly up
\* to the last character of the k-th payload
C14_NoReadAhead ==
    /\ pc = "created" => pos = 0
    /\ (api \in {"stream", "actions"} /\ Only(sent, Chunks \cup {"Noise"})
            /\ pc = "yielded")
           => pos = PayloadEnd(sent, Len(out))

\* the second record is in the caller's hands and the body holds more
C14_Witness ==
    /\ api \in {"stream", "actions"}
    /\ Only(sent, Chunks \cup {"Noise"})
    /\ pc = "yielded"
    /\ Len(out) = 2
    /\ sent[Len(sent)] = "ChunkB"
    /\ pos < Len(body) - 2

(***************************************************************************)
(* What a line does to the framing loop.                                   *)
(***************************************************************************)
\* this step reads one whole line: the scanner reaches the next CR LF
LineRead ==
    /\ api \in {"stream", "actions"}
    /\ pc \in {"scan", "yielded"}
    /\ pos' > pos + 1
    /\ line' = SubSeq(body, pos + 1, pos')
    /\ SubSeq(line', Len(line') - 1, Len(line')) = CRLF

\* the text of that line, trimmed
LineText == Strip(line')

\* its lower-cased text starts with "content-length:"
HeaderText == StartsWith(Lower(LineText), ContentLengthPrefix)

\* the line is dropped: no counted read, no record, no error, and the loop
\* goes on scanning
Discarded ==
    /\ pc' = "scan"
    /\ reads' = reads
    /\ out' = out
    /\ err' = "none"
    /\ end' = "none"
    /\ isOpen' = isOpen

\* C15 as stated: a line read by the framing loop triggers a counted read if
\* and only if its lower-cased, trimmed text starts with "content-length:",
\* and every other line is discarded
C15_HeaderIffRead ==
    [][LineRead => /\ pc' = "payload" <=> HeaderText
                   /\ ~HeaderText => Discarded]_vars

\* C15: a line read by the framing loop triggers a counted read if and only
\* if its lower-cased, trimmed text starts with "content-length:" and the
\* text after its first colon is an integer for int(); with another value it
\* ends the stream with ValueError and no counted read; every other line is
\* discarded
C15_IntegerHeaderIffRead ==
    [][LineRead =>
          /\ pc' = "payload" <=> (HeaderText /\ IsInt(SplitColon1(LineText)))
          /\ (HeaderText /\ ~IsInt(SplitColon1(LineText)))
                 => /\ pc' = "done"
                    /\ err' = "ValueError"
                    /\ reads' = reads
                    /\ out' = out
          /\ ~HeaderText => Discarded]_vars

\* a boundary line was dropped and the upper-case header after it has set
\* up the counted read
C15_Witness ==
    /\ api \in {"stream", "actions"}
    /\ Len(sent) >= 2
    /\ sent[1] = "Noise"
    /\ sent[2] = "ChunkNoCode"
    /\ pc = "payload"
    /\ reads = 0
    /\ pos = Len(ItemText.Noise) + HeaderLineLen("ChunkNoCode")

(***************************************************************************)
(* The scanner and the counted read on the one stream position.            *)
(***************************************************************************)
\* position n of the body lies in the payload of one of its chunks
InPayload(n) ==
    \E k \in 1..Count(sent, Chunks) :
        /\ n <= PayloadEnd(sent, k)
        /\ n > PayloadEnd(sent, k) - Len(ItemPayload[ChunksOf(sent)[k]])

\* C16: the scanner and the counted read never overlap: the scanner takes
\* no payload character into a line, the counted read takes the N payload
\* characters and nothing else, after it the scan resumes on an emptied
\* buffer at the character after the payload (what it buffers is what it
\* reads from there on), and a payload that holds a header line of its own
\* causes no further counted read or record
C16_NoOverlap ==
    [][(api \in {"stream", "actions"} /\ Only(sent, Chunks \cup {"Noise"}))
          => /\ (pc \in {"scan", "yielded"} /\ (pos' # pos \/ line' # line))
                    => /\ \A n \in (pos + 1)..pos' : ~InPayload(n)
                       /\ line' = SubSeq(body, pos + 1, pos')
             /\ pc = "payload"
                    => /\ pos' > pos => /\ pc' \in {"yielded", "decode"}
                                        /\ pos' = PayloadEnd(sent, reads')
                       /\ \A n \in (pos + 1)..pos' : InPayload(n)
                       /\ line' = line
             /\ reads' <= Count(sent, Chunks)
             /\ Len(out') <= reads'
             /\ (end' = "exhausted" /\ api = "stream")
                    => /\ reads' = Count(sent, Chunks)
                       /\ Len(out') = Count(sent, Chunks)]_vars

\* a chunk whose payload holds a header line has been read, and the chunk
\* after it too: two counted reads, two records
C16_Witness ==
    /\ api = "stream"
    /\ Len(sent) = 2
    /\ sent[1] = "ChunkNested"
    /\ sent[2] = "ChunkB"
    /\ end = "exhausted"
    /\ reads = 2
    /\ out = <<PayloadNested, PayloadB>>

(***************************************************************************)
(* A body that ends right after a header line.                             *)
(***************************************************************************)
\* C17: when the body is exhausted right after a content-length header
\* line that announces a payload, with no payload character left, and the
\* transport raises nothing, event_stream ends its sequence without error
\* and without a record for that header, as it does when the body runs out
\* during the scan
C17_TruncatedEndsQuietly ==
    [][(api \in {"stream", "actions"} /\ pc = "payload" /\ pos = Len(body)
           /\ chunk_size >= 1 /\ cause' \notin TransportErrors)
          => /\ pc' = "done"
             /\ end' = "exhausted"
             /\ err' = "none"
             /\ out' = out]_vars

(***************************************************************************)
(* is_motion_detected and is_alarm_triggered (lines 117-129) over          *)
(* event_channels_happened (lines 96-115).  Here body is the decoded       *)
(* response of the camera, event_info the list event_channels_happened     *)
(* returned and out the list the property returned.                        *)
(***************************************************************************)
MaxReplyLines == 3
MaxChannel == 1

\* the event code each property asks for
EventCodeOf ==
    [is_motion_detected |-> "VideoMotion", is_alarm_triggered |-> "AlarmLocal"]

ChannelApis == DOMAIN EventCodeOf

ErrorText == <<"E", "r", "r", "o", "r">>
ChannelsText == <<"c", "h", "a", "n", "n", "e", "l", "s">>

\* the lines a reply is made of
ReplyLine ==
    [Error    |-> ErrorText,
     Channel0 |-> ChannelsText \o <<"[", "0", "]", "=", "0">>,
     Channel1 |-> ChannelsText \o <<"[", "1", "]", "=", "1">>]

ReplySeqs == UNION {[1..n -> DOMAIN ReplyLine] : n \in 0..MaxReplyLines}

RECURSIVE ReplyText(_)
ReplyText(ls) ==
    IF ls = <<>> THEN <<>> ELSE ReplyLine[Head(ls)] \o CRLF \o ReplyText(Tail(ls))

\* sub in t, for two strings
Contains(t, sub) ==
    \E i \in 0..(Len(t) - Len(sub)) : SubSeq(t, i + 1, i + Len(sub)) = sub

\* t.split(): the maximal runs of characters that are not whitespace
RECURSIVE SplitWords(_)
SplitWords(t) ==
    IF t = <<>> THEN <<>>
    ELSE IF Head(t) \in Whitespace THEN SplitWords(Tail(t))
    ELSE LET stops == {i \in 1..Len(t) : t[i] \in Whitespace}
             n == IF stops = {} THEN Len(t) + 1 ELSE Min(stops)
         IN  <<SubSeq(t, 1, n - 1)>> \o SplitWords(SubSeq(t, n, Len(t)))

\* Python values: an int and a str
PyInt(n) == [type |-> "int", items |-> <<n>>]
PyStr(t) == [type |-> "str", items |-> t]

\* a == b of Python: values of different types are never equal
PyEquals(a, b) == a.type = b.type /\ a.items = b.items

\* x in list
PyIn(x, list) == \E i \in 1..Len(list) : PyEquals(list[i], x)

\* the numbers int(pretty(channel)) can give
ChannelNumbers == 0..MaxChannel

\* the command of lines 108-110
IndexesText(eventcode) ==
    <<"eventManager.cgi?action=getEventIndexes&code=", eventcode>>

ChannelsInit ==
    /\ OneCall
    /\ api \in ChannelApis
    /\ sent \in ReplySeqs
    /\ body = ReplyText(sent)
    /\ pos = 0
    /\ pc = "created"
    /\ chunk_size = 0
    /\ line = <<>>
    /\ event_info = <<>>
    /\ out = <<>>
    /\ isOpen = FALSE
    /\ requests = 0
    /\ closes = 0
    /\ reads = 0
    /\ err = "none"
    /\ cause = "none"
    /\ end = "none"

\* the property returns result, having got event
Returns(event, result) ==
    /\ event_info' = event
    /\ out' = result
    /\ Finish("returned", "none", "none")

\* the property raises e
Raises(event, e) ==
    /\ event_info' = event
    /\ out' = out
    /\ Finish("error", e, "none")

\* DetectedNone that gives back the channels event_channels_happened parsed
DetectedParsed(event) == event

\* the return [] of lines 121 and 128
DetectedNone(event) == <<>>

\* lines 119-122 and 126-129 on the list event
Detected(event) ==
    IF ~PyIn(PyStr(ChannelsText), event)
    THEN Returns(event, DetectedNone(event))
    ELSE \* event.split() of a list
         Raises(event, "AttributeError")

\* one read of is_motion_detected or is_alarm_triggered: lines 108-115
\* (the command, "Error" in output, int(pretty(channel)) for every word of
\* the output, which gives a number for each or raises ValueError), then
\* lines 119-122 or 126-129
IsDetected ==
    /\ api \in ChannelApis
    /\ pc = "created"
    /\ requests' = requests + 1
    /\ commands' = Append(commands, [cmd |-> IndexesText(EventCodeOf[api])])
    /\ LET words == SplitWords(body)
       IN  IF Contains(body, ErrorText)
           THEN Detected(<<>>)
           ELSE \E numbers \in [1..Len(words) -> ChannelNumbers],
                   parsed \in BOOLEAN :
                    IF parsed \/ words = <<>>
                    THEN Detected([i \in 1..Len(words) |-> PyInt(numbers[i])])
                    ELSE Raises(<<>>, "ValueError")
    /\ UNCHANGED <<call, api, sent, body, pos, chunk_size, line, isOpen,
                   closes, reads>>

ChannelsNext == IsDetected

ChannelsSpec == ChannelsInit /\ [][ChannelsNext]_vars

\* C18: whenever is_motion_detected or is_alarm_triggered returns, it returns
\* the empty list, whatever the camera answered: the channel numbers that
\* event_channels_happened parsed for "VideoMotion" or "AlarmLocal" are not in
\* the result
C18_AlwaysEmpty ==
    (api \in ChannelApis /\ pc = "done" /\ end = "returned")
        => /\ out = <<>>
           /\ commands = <<[cmd |-> IndexesText(EventCodeOf[api])]>>
           /\ \A i \in 1..Len(event_info) : ~PyIn(event_info[i], out)

\* the camera named two channels for VideoMotion, both were parsed, and the
\* property returned
C18_Witness ==
    /\ api = "is_motion_detected"
    /\ sent = <<"Channel0", "Channel1">>
    /\ pc = "done"
    /\ end = "returned"
    /\ event_info = <<PyInt(0), PyInt(1)>>

====
